---- MODULE Spec2Model ----
(***************************************************************************)
(* bili-sync: the daemon's synchronization cycle (processor.py, entry.py). *)
(*                                                                         *)
(* One OS process runs entry(): the daemon loop calls process() and then   *)
(* sleeps.  process() gates on the credential anchor, then synchronizes    *)
(* every configured favorite list in turn (process_favorite), which pages  *)
(* through the remote listing, upserts the rows and hands the unprocessed  *)
(* rows to asyncio.gather over process_favorite_item, a coroutine wrapped  *)
(* by one module-level semaphore.                                          *)
(*                                                                         *)
(* The event loop is single threaded: the main coroutine and the item      *)
(* tasks interleave at awaits only, so an action is the code between two   *)
(* awaits (or a run of awaits whose effects no other coroutine observes).  *)
(* The remote platform, the calendar, the mux tool and the database driver *)
(* are the environment: their outcomes are chosen with \E.                 *)
(***************************************************************************)
EXTENDS Integers, Sequences, FiniteSets, TLC

(***************************************************************************)
(* Bounds of the model.                                                    *)
(***************************************************************************)
MaxBvid == 3        \* remote ids the user may favorite: 1..MaxBvid
MaxFavs == 3        \* favorite / re-favorite events of the user
MaxRenames == 1     \* title edits on the remote
MaxFaults == 1      \* failures the environment injects (network, mux, db)
MaxDay == 1         \* calendar days that pass while the process lives
PageSize == 1       \* entries per remote listing page
OrchEntries == 5    \* entries of the list in the orchestrator scenario
MaxRuns == 2        \* times the operator starts the program again after it ended

(***************************************************************************)
(* Program constants.                                                      *)
(***************************************************************************)
Concurrency == 4                \* @concurrent_decorator(4)
VIDEO == 2                      \* MediaType
AUDIO == 12
NORMAL == 1                     \* MediaStatus
INVISIBLE == 2
DELETED == 3
CodeInvisible == 62002          \* case 62002
CodeDeleted == -404             \* case -404

Fids == {1, 2}                  \* settings.path_mapper keys, in dict order
FidOrder == <<1, 2>>
Bvids == 1..MaxBvid
AudioBvids == {3}               \* remote entries whose kind is audio
FlvBvids == {2}                 \* remote entries served as one combined stream
Titles == {"t1", "t2"}
None == "None"
OtherCodes == {-403}            \* remote codes the match statement does not name
Codes == {CodeInvisible, CodeDeleted} \cup OtherCodes

VARIABLES
    today,      \* datetime.date.today(), in days
    remote,     \* remote[f]: the favorite list f on the platform, newest first
    clock,      \* the platform's clock, the source of fav_time
    budget,     \* what the environment may still do: [favs, renames, faults, days, runs]
    anchor,     \* processor.anchor
    pc,         \* where the main coroutine (entry -> process -> process_favorite) is
    todo,       \* favorite ids process() has still to visit in this cycle
    cur,        \* favorite_id of the running process_favorite (0: none)
    page,       \* process_favorite's page counter
    resp,       \* favorite_video_list: the last listing response
    items,      \* table favoriteitem: a set of rows
    nextId,     \* the table's autoincrement
    files,      \* files on disk: a set of [fid, bvid, kind, full]
    tasks,      \* the coroutines asyncio.gather runs: row id -> task
    sem,        \* the value of the semaphore of concurrent_decorator
    cyc,        \* history of the running cycle: what process() did in it
    prevFailed, \* history: the previous cycle ended on a failed refresh
    requested,  \* history: listing pages requested by the running process_favorite
    titleUpdated, \* history: an upsert changed the stored name of an existing row
    exitWhy,    \* history: the exception that ended the process ("none": running)
    info,       \* info[f]: the title of the favorite list f on the platform
    uppers,     \* table upper: mid -> [name, thumb]
    favlists    \* table favoritelist: id -> name

vars == <<today, remote, clock, budget, anchor, pc, todo, cur, page, resp,
          items, nextId, files, tasks, sem, cyc, prevFailed, requested, titleUpdated,
          exitWhy, info, uppers, favlists>>

envVars == <<today, remote, clock, info>>
mainVars == <<anchor, pc, todo, cur, page, resp, cyc, prevFailed, requested, exitWhy>>
dbVars == <<items, nextId, titleUpdated, uppers, favlists>>

NoResp == [medias |-> <<>>, has_more |-> FALSE]
NoCycle == [checked |-> FALSE, tried |-> FALSE, failed |-> FALSE, synced |-> {}]

(***************************************************************************)
(* The remote platform.                                                    *)
(***************************************************************************)
TypeOf(b) == IF b \in AudioBvids THEN AUDIO ELSE VIDEO

SeqRange(s) == {s[i] : i \in DOMAIN s}

\* The process sees the platform only through its listing requests and the
\* calendar only at the top of process().  Changes commute with everything up to
\* the request that shows them, so a change of list f is taken right before a
\* request of list f (a title edit: before the first one of a synchronization,
\* which shows it like any later moment does), and a change of date right before
\* process() reads it.
BeforeListing(f) == pc \in {"first", "fetch"} /\ cur = f

BeforeFirst(f) == pc = "first" /\ cur = f

\* The remote ids favorited so far.  Ids are interchangeable up to their kind, so
\* the user takes new ones in the order 1, 2, ...
Known == UNION {{m.bvid : m \in SeqRange(remote[f])} : f \in Fids}

\* An item of a listing response as the platform first shows it: the entry b,
\* uploaded by the account b, favorited at time t.
Media(b, t) ==
    [bvid |-> b, title |-> "t1", intro |-> "d1", cover |-> "c1", ctime |-> b, pubtime |-> b,
     upper |-> [mid |-> b, name |-> "u1", face |-> "a1"], fav_time |-> t]

\* The user favorites b in list f (again): it moves to the front with a new fav_time.
Favorite(f, b) ==
    /\ BeforeListing(f)
    /\ budget.favs > 0
    /\ b \in Known \cup {Cardinality(Known) + 1}
    /\ LET keep(m) == m.bvid # b
           old == {m \in SeqRange(remote[f]) : m.bvid = b}
           new == IF old = {} THEN Media(b, clock + 1)
                  ELSE [(CHOOSE m \in old : TRUE) EXCEPT !.fav_time = clock + 1]
       IN remote' = [remote EXCEPT ![f] = <<new>> \o SelectSeq(remote[f], keep)]
    /\ clock' = clock + 1
    /\ budget' = [budget EXCEPT !.favs = @ - 1]
    /\ UNCHANGED <<today, info, files, tasks, sem>>
    /\ UNCHANGED mainVars
    /\ UNCHANGED dbVars

\* The user takes the i-th entry out of list f.
Unfavorite(f, i) ==
    /\ BeforeListing(f)
    /\ budget.favs > 0
    /\ i \in DOMAIN remote[f]
    /\ remote' = [remote EXCEPT ![f] = SubSeq(@, 1, i - 1) \o SubSeq(@, i + 1, Len(@))]
    /\ budget' = [budget EXCEPT !.favs = @ - 1]
    /\ UNCHANGED <<today, clock, info, files, tasks, sem>>
    /\ UNCHANGED mainVars
    /\ UNCHANGED dbVars

\* The uploader edits the entry (title, description, cover) and their profile
\* (name, avatar); the listing of f shows the new values.
Rename(f, i) ==
    /\ BeforeFirst(f)
    /\ budget.renames > 0
    /\ i \in DOMAIN remote[f]
    /\ remote' = [remote EXCEPT ![f][i].title = "t2", ![f][i].intro = "d2",
                                ![f][i].cover = "c2", ![f][i].upper.name = "u2",
                                ![f][i].upper.face = "a2"]
    /\ remote[f][i].title # "t2"
    /\ budget' = [budget EXCEPT !.renames = @ - 1]
    /\ UNCHANGED <<today, clock, info, files, tasks, sem>>
    /\ UNCHANGED mainVars
    /\ UNCHANGED dbVars

\* The owner of the favorite list f gives it another title.
RenameList(f) ==
    /\ BeforeFirst(f)
    /\ budget.renames > 0
    /\ info[f] # "n2"
    /\ info' = [info EXCEPT ![f] = "n2"]
    /\ budget' = [budget EXCEPT !.renames = @ - 1]
    /\ UNCHANGED <<today, remote, clock, files, tasks, sem>>
    /\ UNCHANGED mainVars
    /\ UNCHANGED dbVars

DayPasses ==
    /\ pc = "start"
    /\ budget.days > 0
    /\ today' = today + 1
    /\ budget' = [budget EXCEPT !.days = @ - 1]
    /\ UNCHANGED <<remote, clock, info, files, tasks, sem>>
    /\ UNCHANGED mainVars
    /\ UNCHANGED dbVars

\* A list of the entries bs, newest first: favorited from time t on, the lowest
\* id the latest.
RECURSIVE Listing(_, _)
Listing(bs, t) ==
    IF bs = {} THEN <<>>
    ELSE LET b == CHOOSE x \in bs : \A y \in bs : x <= y
         IN <<Media(b, t + Cardinality(bs) - 1)>> \o Listing(bs \ {b}, t)

NumPages(f) == (Len(remote[f]) + PageSize - 1) \div PageSize

\* favorite_list.get_video_favorite_list_content(f, page=p)
ListingPage(f, p) ==
    [medias |-> SubSeq(remote[f], (p - 1) * PageSize + 1,
                       IF p * PageSize < Len(remote[f]) THEN p * PageSize ELSE Len(remote[f])),
     has_more |-> p * PageSize < Len(remote[f])]

(***************************************************************************)
(* The database (tortoise models over sqlite).                             *)
(***************************************************************************)
\* datetime.datetime.utcfromtimestamp(ts), stored by a DatetimeField with use_tz:
\* the naive value is taken as UTC.
utcfromtimestamp(ts) == [epoch |-> ts, tz |-> "UTC"]

\* int(item.fav_time.timestamp()) of the aware value read back
timestamp(dt) == dt.epoch

\* FavoriteItem(...) of manage_model: status and tags take the field defaults
NewItem(m, f, id) ==
    [id |-> id, bvid |-> m.bvid, fid |-> f, name |-> m.title, type |-> TypeOf(m.bvid),
     desc |-> m.intro, cover |-> m.cover, upper_id |-> m.upper.mid,
     ctime |-> utcfromtimestamp(m.ctime), pubtime |-> utcfromtimestamp(m.pubtime),
     status |-> NORMAL, downloaded |-> FALSE, fav_time |-> utcfromtimestamp(m.fav_time),
     tags |-> None]

Conflicts(rows, m, f) == {r \in rows : r.bvid = m.bvid /\ r.fid = f}

InsertOnly(db, m, f) ==
    [rows |-> db.rows \cup {NewItem(m, f, db.next)}, next |-> db.next + 1,
     updated |-> db.updated]

UpsertReplace(db, m, f) ==
    LET hit == Conflicts(db.rows, m, f) IN
    IF hit = {}
    THEN [rows |-> db.rows \cup {NewItem(m, f, db.next)}, next |-> db.next + 1,
          updated |-> db.updated]
    ELSE [rows |-> (db.rows \ hit) \cup {NewItem(m, f, r.id) : r \in hit},
          next |-> db.next, updated |-> db.updated]

UpsertNameOnly(db, m, f) ==
    LET hit == Conflicts(db.rows, m, f) IN
    IF hit = {}
    THEN [rows |-> db.rows \cup {NewItem(m, f, db.next)}, next |-> db.next + 1,
          updated |-> db.updated]
    ELSE [rows |-> (db.rows \ hit) \cup
                   {[r EXCEPT !.name = m.title,
                              !.fav_time = utcfromtimestamp(m.fav_time)] : r \in hit},
          next |-> db.next,
          updated |-> db.updated \/ \E r \in hit : r.name # m.title]

\* One row of INSERT ... ON CONFLICT (bvid, favorite_list_id) DO UPDATE SET
\* name, type, desc, cover, ctime, pubtime, fav_time.
UpsertOne(db, m, f) ==
    LET hit == Conflicts(db.rows, m, f) IN
    IF hit = {}
    THEN [rows |-> db.rows \cup {NewItem(m, f, db.next)}, next |-> db.next + 1,
          updated |-> db.updated]
    ELSE [rows |-> (db.rows \ hit) \cup
                   {[r EXCEPT !.name = m.title, !.type = TypeOf(m.bvid),
                              !.desc = m.intro, !.cover = m.cover,
                              !.ctime = utcfromtimestamp(m.ctime),
                              !.pubtime = utcfromtimestamp(m.pubtime),
                              !.fav_time = utcfromtimestamp(m.fav_time)] : r \in hit},
          next |-> db.next,
          updated |-> db.updated \/ \E r \in hit : r.name # m.title]

BulkCreateMirror(db, medias, f) ==
    [rows |-> {r \in db.rows : r.fid # f \/ r.bvid \in {m.bvid : m \in SeqRange(medias)}}
                 \cup {NewItem(medias[k], f, db.next + k - 1) :
                          k \in {j \in DOMAIN medias : Conflicts(db.rows, medias[j], f) = {}}},
     next |-> db.next + Len(medias), updated |-> db.updated]

RECURSIVE BulkCreate(_, _, _)
BulkCreate(db, medias, f) ==
    IF medias = <<>> THEN db
    ELSE BulkCreate(UpsertOne(db, Head(medias), f), Tail(medias), f)

\* manage_model(medias, fav_list): the rows of favoriteitem
manage_model(medias, f) ==
    BulkCreate([rows |-> items, next |-> nextId, updated |-> titleUpdated], medias, f)

\* Upper.bulk_create(uppers, on_conflict=["mid"], update_fields=["name", "thumb"])
RECURSIVE BulkCreateUppers(_, _)
BulkCreateUppers(tbl, medias) ==
    IF medias = <<>> THEN tbl
    ELSE LET u == Head(medias).upper
         IN BulkCreateUppers([mid \in DOMAIN tbl \cup {u.mid} |->
                                 IF mid = u.mid THEN [name |-> u.name, thumb |-> u.face]
                                 ELSE tbl[mid]],
                             Tail(medias))

\* FavoriteList.get_or_create(id=favorite_id, defaults={"name": title})
get_or_create(tbl, f, title) ==
    IF f \in DOMAIN tbl THEN tbl
    ELSE [id \in DOMAIN tbl \cup {f} |-> IF id = f THEN title ELSE tbl[id]]

ExistedItemsAnyList(f, medias) ==
    {r \in items : r.bvid \in {m.bvid : m \in SeqRange(medias)}}

\* FavoriteItem.filter(favorite_list=fav_list, bvid__in=[...])
ExistedItems(f, medias) ==
    {r \in items : r.fid = f /\ r.bvid \in {m.bvid : m \in SeqRange(medias)}}

MediaInfo(medias) == {<<m.bvid, m.fav_time>> : m \in SeqRange(medias)}

\* continue_flag = not media_info & {(item.bvid, int(item.fav_time.timestamp())) ...}
ContinueFlag(f, medias) ==
    MediaInfo(medias) \cap
        {<<r.bvid, timestamp(r.fav_time)>> : r \in ExistedItems(f, medias)} = {}

KeepPagingEither(flag, has_more) == flag \/ has_more

KeepPagingFlagOnly(flag, has_more) == flag

\* if not (continue_flag and has_more): break
KeepPaging(flag, has_more) == flag /\ has_more

UnprocessedUntagged(f) ==
    {r \in items : r.fid = f /\ r.type = VIDEO /\ r.status = NORMAL /\ ~r.downloaded
                      /\ r.tags = None}

UnprocessedAnyStatus(f) ==
    {r \in items : r.fid = f /\ r.type = VIDEO /\ ~r.downloaded}

\* FavoriteItem.filter(favorite_list=fav_list, type=VIDEO, status=NORMAL, downloaded=False)
Unprocessed(f) ==
    {r \in items : r.fid = f /\ r.type = VIDEO /\ r.status = NORMAL /\ ~r.downloaded}

(***************************************************************************)
(* process(): the credential gate and the loop over the favorite lists.    *)
(***************************************************************************)
NeedCheckNotBefore(t, a) == t >= a

\* (today := datetime.date.today()) > anchor
NeedCheck(t, a) == t > a

ProcessStart ==
    /\ pc = "start"
    /\ IF NeedCheck(today, anchor)
       THEN /\ anchor' = today
            /\ pc' = "check"
            /\ todo' = <<>>
       ELSE /\ pc' = "loop"
            /\ todo' = FidOrder
            /\ UNCHANGED anchor
    /\ cyc' = NoCycle
    /\ UNCHANGED <<cur, page, resp, prevFailed, requested, exitWhy, budget, files, tasks, sem>>
    /\ UNCHANGED envVars
    /\ UNCHANGED dbVars

\* await credential.check_refresh(): the platform answers, or the call raises and
\* the exception leaves process() and entry().
CheckRefresh ==
    /\ pc = "check"
    /\ \E answer \in {"stale", "fresh", "raise"} :
          /\ answer = "raise" => budget.faults > 0
          /\ budget' = [budget EXCEPT !.faults = @ - (IF answer = "raise" THEN 1 ELSE 0)]
          /\ pc' = CASE answer = "stale" -> "refresh"
                     [] answer = "fresh" -> "loop"
                     [] OTHER -> "exit"
          /\ todo' = IF answer = "fresh" THEN FidOrder ELSE todo
          /\ exitWhy' = IF answer = "raise" THEN "credential" ELSE exitWhy
    /\ cyc' = [cyc EXCEPT !.checked = TRUE]
    /\ UNCHANGED <<anchor, cur, page, resp, prevFailed, requested, files, tasks, sem>>
    /\ UNCHANGED envVars
    /\ UNCHANGED dbVars

\* await credential.refresh(): on an exception process() logs and returns.
Refresh ==
    /\ pc = "refresh"
    /\ \E ok \in BOOLEAN :
          /\ ~ok => budget.faults > 0
          /\ budget' = [budget EXCEPT !.faults = @ - (IF ok THEN 0 ELSE 1)]
          /\ pc' = IF ok THEN "loop" ELSE "sleep"
          /\ todo' = IF ok THEN FidOrder ELSE todo
          /\ cyc' = [cyc EXCEPT !.tried = TRUE, !.failed = ~ok]
          /\ prevFailed' = IF ok THEN prevFailed ELSE TRUE
    /\ UNCHANGED <<anchor, cur, page, resp, requested, exitWhy, files, tasks, sem>>
    /\ UNCHANGED envVars
    /\ UNCHANGED dbVars

\* for favorite_id in settings.path_mapper: ... ; after the last one process()
\* returns and the daemon sleeps.
ForNext ==
    /\ pc = "loop"
    /\ IF todo = <<>>
       THEN /\ pc' = "sleep"
            /\ prevFailed' = FALSE
            /\ UNCHANGED <<todo, cur, cyc, requested>>
       ELSE /\ pc' = "first"
            /\ cur' = Head(todo)
            /\ todo' = Tail(todo)
            /\ cyc' = [cyc EXCEPT !.synced = @ \cup {Head(todo)}]
            /\ requested' = <<>>
            /\ UNCHANGED prevFailed
    /\ UNCHANGED <<anchor, page, resp, exitWhy, budget, files, tasks, sem>>
    /\ UNCHANGED envVars
    /\ UNCHANGED dbVars

\* await asyncio.sleep(settings.interval * 60), then the next process()
Sleep ==
    /\ pc = "sleep"
    /\ pc' = "start"
    /\ UNCHANGED <<anchor, todo, cur, page, resp, cyc, prevFailed, requested,
                   exitWhy, budget, files, tasks, sem>>
    /\ UNCHANGED envVars
    /\ UNCHANGED dbVars

(***************************************************************************)
(* process_favorite(favorite_id): paging.                                  *)
(***************************************************************************)
PageAfterSkip(p) == p + 2

\* page += 1
PageAfter(p) == p + 1

\* The first request (for the title), get_or_create, mkdir, page = 0; page += 1.
\* A failed request raises out of process_favorite, process and entry.
FetchFirst ==
    /\ pc = "first"
    /\ \E ok \in BOOLEAN :
          /\ ~ok => budget.faults > 0
          /\ budget' = [budget EXCEPT !.faults = @ - (IF ok THEN 0 ELSE 1)]
          /\ exitWhy' = IF ok THEN exitWhy ELSE "listing"
          /\ IF ok
             THEN /\ resp' = ListingPage(cur, 1)
                  /\ page' = PageAfter(0)
                  /\ pc' = "handle"
             ELSE /\ pc' = "exit"
                  /\ UNCHANGED <<resp, page>>
          /\ favlists' = IF ok THEN get_or_create(favlists, cur, info[cur]) ELSE favlists
    /\ requested' = <<1>>
    /\ UNCHANGED <<anchor, todo, cur, cyc, prevFailed, files, tasks, sem>>
    /\ UNCHANGED envVars
    /\ UNCHANGED <<items, nextId, titleUpdated, uppers>>

\* The body of the while loop after the request: the known-point check against the
\* rows as they are, the upsert, and the decision to go on or to break.
HandlePage ==
    /\ pc = "handle"
    /\ LET flag == ContinueFlag(cur, resp.medias)
           db == manage_model(resp.medias, cur)
       IN /\ items' = db.rows
          /\ nextId' = db.next
          /\ titleUpdated' = db.updated
          /\ uppers' = BulkCreateUppers(uppers, resp.medias)
          /\ pc' = IF KeepPaging(flag, resp.has_more) THEN "fetch" ELSE "select"
    /\ UNCHANGED favlists
    /\ UNCHANGED <<anchor, todo, cur, page, resp, cyc, prevFailed, requested,
                   exitWhy, budget, files, tasks, sem>>
    /\ UNCHANGED envVars

\* page += 1; the request of that page.
FetchNext ==
    /\ pc = "fetch"
    /\ \E ok \in BOOLEAN :
          /\ ~ok => budget.faults > 0
          /\ budget' = [budget EXCEPT !.faults = @ - (IF ok THEN 0 ELSE 1)]
          /\ exitWhy' = IF ok THEN exitWhy ELSE "listing"
          /\ IF ok
             THEN /\ resp' = ListingPage(cur, PageAfter(page))
                  /\ pc' = "handle"
             ELSE /\ pc' = "exit"
                  /\ UNCHANGED resp
    /\ page' = PageAfter(page)
    /\ requested' = Append(requested, PageAfter(page))
    /\ UNCHANGED <<anchor, todo, cur, cyc, prevFailed, files, tasks, sem>>
    /\ UNCHANGED envVars
    /\ UNCHANGED dbVars

(***************************************************************************)
(* Files on disk.                                                          *)
(***************************************************************************)
Path(f, b, k) == [fid |-> f, bvid |-> b, kind |-> k]

AtPath(fs, p) == {x \in fs : x.fid = p.fid /\ x.bvid = p.bvid /\ x.kind = p.kind}

aexistsNever(fs, p) == FALSE

\* aexists(path): true of a partly written file too
aexists(fs, p) == AtPath(fs, p) # {}

WriteFile(fs, p, full) ==
    (fs \ AtPath(fs, p)) \cup {[fid |-> p.fid, bvid |-> p.bvid, kind |-> p.kind, full |-> full]}

unlink(fs, p) == fs \ AtPath(fs, p)

\* aremove(path) of a forced refresh: the target is deleted (a missing one raises
\* into the gather of the removals, which returns the exception).
aremove(fs, p) == fs \ AtPath(fs, p)

\* download_content(url, path): the request is opened first and the file second, so
\* a refused request leaves the path alone and a stream that breaks leaves a part.
DownloadOutcomes == {"ok", "refused", "broken"}

download_content(fs, p, out) ==
    CASE out = "ok" -> WriteFile(fs, p, TRUE)
      [] out = "broken" -> WriteFile(fs, p, FALSE)
      [] OTHER -> fs

Failed(out) == IF out = "ok" THEN 0 ELSE 1

(***************************************************************************)
(* concurrent_decorator: one semaphore made when the module is imported.   *)
(***************************************************************************)
\* Semaphore.acquire(): possible while the value is positive
CanAcquire(s) == s > 0

AcquireSemKeep(s) == s

AcquireSem(s) == s - 1

ReleaseSem(s) == s + 1

(***************************************************************************)
(* process_favorite: selection and asyncio.gather.                         *)
(***************************************************************************)
AllSteps == {"poster", "video", "nfo", "upper", "subtitle"}

\* No mux tool has been started.
NoCommand == [inputs |-> <<>>, copy |-> FALSE, output |-> [fid |-> 0, bvid |-> 0, kind |-> "none"]]

\* The coroutine process_favorite_item(item) as gather schedules it.  obj is the
\* in-memory FavoriteItem; the other fields record what the call did, and forced
\* whether its caller ran with the force flag.
NewTask(row, steps) ==
    [pc |-> "wait", obj |-> row, steps |-> steps, forced |-> FALSE,
     pre |-> [status |-> row.status, downloaded |-> row.downloaded],
     hadFile |-> FALSE, code |-> 0, net |-> 0, resolves |-> 0, fetches |-> 0,
     muxes |-> 0, muxrc |-> "none", muxcmd |-> NoCommand, ran |-> {}, saves |-> 0, log |-> {}]

Finished(t) == t.pc \in {"done", "raised"}

InBody(t) == t.pc \in {"body", "video", "fetch", "mux", "save"}

InFlight == {i \in DOMAIN tasks : InBody(tasks[i])}

\* all_unprocessed_items and the coroutines handed to asyncio.gather
Select ==
    /\ pc = "select"
    /\ tasks' = [i \in {r.id : r \in Unprocessed(cur)} |->
                    NewTask(CHOOSE r \in items : r.id = i, AllSteps)]
    /\ pc' = "gather"
    /\ UNCHANGED <<anchor, todo, cur, page, resp, cyc, prevFailed, requested, exitWhy,
                   budget, files, sem>>
    /\ UNCHANGED envVars
    /\ UNCHANGED dbVars

\* The refresh commands: the sub-step each one turns on and the target its
\* path_getter names.  The uploader's files are kept outside the lists' folders.
RefreshCommands == {"refresh_nfo", "refresh_poster", "refresh_video", "refresh_upper",
                    "refresh_subtitle"}

StepOf(command) ==
    CASE command = "refresh_nfo" -> "nfo"
      [] command = "refresh_poster" -> "poster"
      [] command = "refresh_video" -> "video"
      [] command = "refresh_upper" -> "upper"
      [] OTHER -> "subtitle"

RemoveEverything(fs, ps) == {}

\* gather(*[aremove(path) for item in items for path in path_getter(item)])
RECURSIVE RemoveAll(_, _)
RemoveAll(fs, ps) ==
    IF ps = {} THEN fs
    ELSE LET p == CHOOSE x \in ps : TRUE IN RemoveAll(aremove(fs, p), ps \ {p})

\* _refresh_favorite_item_info(path_getter, process_<step>=True, force): the rows
\* persisted as downloaded, of every list and status; with force their targets are
\* removed first; then one gather over process_favorite_item with one sub-step on.
RefreshCommand(command, force) ==
    /\ pc = "cmd"
    /\ LET sel == {r \in items : r.downloaded}
       IN /\ files' = IF force
                       THEN RemoveAll(files, {Path(r.fid, r.bvid, StepOf(command)) : r \in sel})
                       ELSE files
          /\ tasks' = [i \in {r.id : r \in sel} |->
                          [NewTask(CHOOSE r \in items : r.id = i, {StepOf(command)})
                              EXCEPT !.forced = force]]
    /\ pc' = "gather"
    /\ UNCHANGED <<anchor, todo, cur, page, resp, cyc, prevFailed, requested, exitWhy,
                   budget, sem>>
    /\ UNCHANGED envVars
    /\ UNCHANGED dbVars

IsOkNever(fs, r) == FALSE

\* is_ok(item) of recheck: no row has pages, so it is aexists(item.video_path)
IsOk(fs, r) == aexists(fs, Path(r.fid, r.bvid, "video"))

\* recheck(): the Normal video rows persisted as downloaded are checked (a gather
\* with return_exceptions); a row whose check raised is logged and skipped, a row
\* whose file is missing is marked not downloaded (bulk_update of the one field);
\* then entry() returns.
Recheck ==
    /\ pc = "cmd"
    /\ LET checked == {r \in items : r.type = VIDEO /\ r.status = NORMAL /\ r.downloaded}
       IN \E raised \in SUBSET checked :
             LET lacking == {r \in checked \ raised : ~IsOk(files, r)}
             IN /\ Cardinality(raised) <= budget.faults
                /\ budget' = [budget EXCEPT !.faults = @ - Cardinality(raised)]
                /\ items' = (items \ lacking)
                                \cup {[r EXCEPT !.downloaded = FALSE] : r \in lacking}
    /\ pc' = "exit"
    /\ exitWhy' = "returned"
    /\ UNCHANGED <<anchor, todo, cur, page, resp, cyc, prevFailed, requested,
                   files, tasks, sem, nextId, titleUpdated, uppers, favlists>>
    /\ UNCHANGED envVars

ReturnExceptionsOff == FALSE

\* return_exceptions=True
ReturnExceptions == TRUE

\* asyncio.gather: it returns when every coroutine has finished; without
\* return_exceptions it raises the first exception as soon as one is raised.
GatherOutcome(ts, return_exceptions) ==
    IF ~return_exceptions /\ \E i \in DOMAIN ts : ts[i].pc = "raised" THEN "raise"
    ELSE IF \A i \in DOMAIN ts : Finished(ts[i]) THEN "return"
    ELSE "pending"

\* What the caller logs of the list gather returns: the list is dropped, only
\* "... processed successfully" follows (a refresh command logs nothing).
GatherLog(ts) == {}

GatherDone ==
    /\ pc = "gather"
    /\ LET out == GatherOutcome(tasks, ReturnExceptions)
       IN /\ out # "pending"
          \* process_favorite returns to the loop of process(); a refresh command
          \* (cur = 0) returns to entry(), which returns; an exception leaves both
          /\ pc' = IF out = "return" /\ cur # 0 THEN "loop" ELSE "exit"
          /\ exitWhy' = CASE out # "return" -> "item"
                          [] cur = 0 -> "returned"
                          [] OTHER -> exitWhy
    \* the caller's locals and the coroutines are gone
    /\ cur' = 0
    /\ page' = 0
    /\ resp' = NoResp
    /\ requested' = <<>>
    /\ tasks' = <<>>
    /\ UNCHANGED <<anchor, todo, cyc, prevFailed, budget, files, sem>>
    /\ UNCHANGED envVars
    /\ UNCHANGED dbVars

(***************************************************************************)
(* process_favorite_item, wrapped by the semaphore.                        *)
(***************************************************************************)
taskFrame == <<anchor, pc, todo, cur, page, resp, cyc, prevFailed, requested, exitWhy>>

\* wrapper: async with sem
Acquire(i) ==
    /\ pc = "gather"
    /\ i \in DOMAIN tasks
    /\ tasks[i].pc = "wait"
    /\ CanAcquire(sem)
    /\ sem' = AcquireSem(sem)
    /\ tasks' = [tasks EXCEPT ![i].pc = "body",
                              ![i].hadFile = AtPath(files, Path(tasks[i].obj.fid,
                                                               tasks[i].obj.bvid, "video")) # {}]
    /\ UNCHANGED <<budget, files>>
    /\ UNCHANGED taskFrame
    /\ UNCHANGED envVars
    /\ UNCHANGED dbVars

\* The sub-steps before the video one, in the order of the code.
SideOrder == <<"tags", "upper", "nfo", "poster", "subtitle">>

CaughtNever(step) == FALSE

\* except Exception: logger.exception(...) around the sub-step: the exception is
\* logged and the body goes on.
Caught(step) == TRUE

\* The sub-steps of SideOrder, from the k-th on, that the body enters: the enabled
\* ones, up to the first whose exception leaves the body.
RECURSIVE Entered(_, _, _)
Entered(k, enabled, failed) ==
    IF k > Len(SideOrder) THEN {}
    ELSE LET step == SideOrder[k]
         IN IF step \notin enabled THEN Entered(k + 1, enabled, failed)
            ELSE IF step \in failed /\ ~Caught(step) THEN {step}
            ELSE {step} \cup Entered(k + 1, enabled, failed)

\* What logger.exception of a sub-step leaves in the log
LogOf(step) ==
    CASE step = "tags" -> "tags_failed"
      [] step = "upper" -> "upper_failed"
      [] step = "nfo" -> "nfo_failed"
      [] step = "poster" -> "poster_failed"
      [] step = "subtitle" -> "subtitle_failed"
      [] OTHER -> "video_failed"

\* The body up to the video sub-step: the type check, then the tags, the uploader,
\* the nfo, the poster and the subtitle, each in a try of its own.  In this
\* revision Upper has no save_metadata and EpisodeInfo takes no plot: both steps
\* raise (and log) whenever their target is missing, and write nothing.
SideSteps(i) ==
    /\ pc = "gather"
    /\ i \in DOMAIN tasks
    /\ tasks[i].pc = "body"
    /\ LET t == tasks[i]
           o == t.obj
           needTags == o.tags = None
           needPoster == "poster" \in t.steps /\ ~aexists(files, Path(o.fid, o.bvid, "poster"))
           needSub == "subtitle" \in t.steps /\ ~aexists(files, Path(o.fid, o.bvid, "subtitle"))
       IN IF o.type # VIDEO
          THEN \* logger.warning(...); return -- and the semaphore is released
               /\ tasks' = [tasks EXCEPT ![i].pc = "done", ![i].log = @ \cup {"not_video"}]
               /\ sem' = ReleaseSem(sem)
               /\ UNCHANGED <<budget, files>>
          ELSE \E tagsOut \in {"ok", "fail"}, posterOut \in DownloadOutcomes,
                  subOut \in {"ok", "fail"} :
               LET failed == (IF tagsOut = "fail" THEN {"tags"} ELSE {})
                               \cup (t.steps \cap {"upper", "nfo"})
                               \cup (IF posterOut # "ok" THEN {"poster"} ELSE {})
                               \cup (IF subOut = "fail" THEN {"subtitle"} ELSE {})
                   ran == Entered(1, {"tags"} \cup (t.steps \ {"video"}), failed)
                   escaped == \E step \in ran \cap failed : ~Caught(step)
                   doTags == needTags /\ "tags" \in ran
                   doPoster == needPoster /\ "poster" \in ran
                   doSub == needSub /\ "subtitle" \in ran
               IN
               /\ ~needTags => tagsOut = "ok"
               /\ ~needPoster => posterOut = "ok"
               /\ ~needSub => subOut = "ok"
               /\ Failed(tagsOut) + Failed(posterOut) + Failed(subOut) <= budget.faults
               /\ budget' = [budget EXCEPT !.faults = @ - (Failed(tagsOut) + Failed(posterOut) + Failed(subOut))]
               /\ files' =
                    LET f1 == IF doPoster
                              THEN download_content(files, Path(o.fid, o.bvid, "poster"), posterOut)
                              ELSE files
                    IN IF doSub /\ subOut = "ok"
                       THEN WriteFile(f1, Path(o.fid, o.bvid, "subtitle"), TRUE)
                       ELSE f1
               /\ tasks' = [tasks EXCEPT
                    ![i].pc = IF escaped THEN "raised" ELSE "video",
                    ![i].obj.tags = IF doTags /\ tagsOut = "ok" THEN "tags" ELSE @,
                    ![i].net = @ + (IF doTags THEN 1 ELSE 0) + (IF doPoster THEN 1 ELSE 0)
                                 + (IF doSub THEN 1 ELSE 0),
                    ![i].ran = ran,
                    ![i].log = @ \cup {LogOf(step) : step \in ran \cap failed}]
               /\ sem' = IF escaped THEN ReleaseSem(sem) ELSE sem
    /\ UNCHANGED taskFrame
    /\ UNCHANGED envVars
    /\ UNCHANGED dbVars

StatusForSwapped(code, status) ==
    CASE code = CodeInvisible -> DELETED
      [] code = CodeDeleted -> INVISIBLE
      [] OTHER -> status

\* except ResponseCodeException as e: match e.code
StatusFor(code, status) ==
    CASE code = CodeInvisible -> INVISIBLE
      [] code = CodeDeleted -> DELETED
      [] OTHER -> status

\* What the handler of ResponseCodeException logs.
CodeLog(code, status) ==
    (IF code \notin {CodeInvisible, CodeDeleted} THEN {"video_failed"} ELSE {})
        \cup (IF StatusFor(code, status) # NORMAL THEN {"not_available"} ELSE {})

\* Where the body goes when the video sub-step raises: into its handler and on to
\* the save.
AfterVideoFailure == IF Caught("video") THEN "save" ELSE "raised"

\* The video sub-step up to the answer of v.get_download_url: the file check, then
\* the stream resolution, whose ResponseCodeException is mapped to the status.
VideoStep(i) ==
    /\ pc = "gather"
    /\ i \in DOMAIN tasks
    /\ tasks[i].pc = "video"
    /\ LET t == tasks[i]
           o == t.obj
       IN IF "video" \notin t.steps
          THEN /\ tasks' = [tasks EXCEPT ![i].pc = "save"]
               /\ UNCHANGED <<budget, sem>>
          ELSE IF aexists(files, Path(o.fid, o.bvid, "video"))
          THEN /\ tasks' = [tasks EXCEPT ![i].pc = "save", ![i].obj.downloaded = TRUE,
                                         ![i].ran = @ \cup {"video"},
                                         ![i].log = @ \cup {"video_exists"}]
               /\ UNCHANGED <<budget, sem>>
          ELSE \E out \in {"ok", "error", "code"}, c \in Codes :
               /\ out # "code" => c = CodeInvisible
               /\ out # "ok" => budget.faults > 0
               /\ budget' = [budget EXCEPT !.faults = @ - (IF out = "ok" THEN 0 ELSE 1)]
               /\ tasks' = [tasks EXCEPT
                    ![i].pc = IF out = "ok" THEN "fetch" ELSE AfterVideoFailure,
                    ![i].net = @ + 1,
                    ![i].resolves = @ + 1,
                    ![i].ran = @ \cup {"video"},
                    ![i].code = IF out = "code" THEN c ELSE @,
                    ![i].obj.status = IF out = "code" THEN StatusFor(c, @) ELSE @,
                    ![i].log = @ \cup (IF out = "code" THEN CodeLog(c, o.status)
                                       ELSE IF out = "error" THEN {"video_failed"} ELSE {})]
               /\ sem' = IF out # "ok" /\ AfterVideoFailure = "raised"
                         THEN ReleaseSem(sem) ELSE sem
    /\ UNCHANGED files
    /\ UNCHANGED taskFrame
    /\ UNCHANGED envVars
    /\ UNCHANGED dbVars

IsFlvNever(b) == FALSE

\* detector.check_flv_stream()
IsFlv(b) == b \in FlvBvids

\* The download of the temp inputs: one for a combined stream, two (gathered) for
\* separate streams.  A failed download raises into the handler of the sub-step.
Fetch(i) ==
    /\ pc = "gather"
    /\ i \in DOMAIN tasks
    /\ tasks[i].pc = "fetch"
    /\ LET o == tasks[i].obj
           tv == Path(o.fid, o.bvid, "tmp_video")
           ta == Path(o.fid, o.bvid, "tmp_audio")
       IN \E ov \in DownloadOutcomes, oa \in DownloadOutcomes :
             /\ IsFlv(o.bvid) => oa = "ok"
             /\ Failed(ov) + Failed(oa) <= budget.faults
             /\ budget' = [budget EXCEPT !.faults = @ - (Failed(ov) + Failed(oa))]
             /\ files' = IF IsFlv(o.bvid)
                         THEN download_content(files, tv, ov)
                         ELSE download_content(download_content(files, tv, ov), ta, oa)
             /\ tasks' = [tasks EXCEPT
                  ![i].pc = IF ov = "ok" /\ oa = "ok" THEN "mux" ELSE AfterVideoFailure,
                  ![i].net = @ + (IF IsFlv(o.bvid) THEN 1 ELSE 2),
                  ![i].fetches = @ + (IF IsFlv(o.bvid) THEN 1 ELSE 2),
                  ![i].log = @ \cup (IF ov = "ok" /\ oa = "ok" THEN {} ELSE {"video_failed"})]
             /\ sem' = IF ~(ov = "ok" /\ oa = "ok") /\ AfterVideoFailure = "raised"
                       THEN ReleaseSem(sem) ELSE sem
    /\ UNCHANGED taskFrame
    /\ UNCHANGED envVars
    /\ UNCHANGED dbVars

\* What the mux tool can do: exit 0 with the output written, exit non-zero with no
\* output or a part of it; or the tool cannot be started and the call raises.
MuxOutcomes == {"zero", "nonzero", "nonzero_part", "no_tool"}

MuxCompletesAlways(out) == TRUE

\* What the code does once communicate() has returned with this outcome: whether
\* the temp inputs are unlinked and downloaded is set.  The exit status is not read.
MuxCompletes(out) == out # "no_tool"

\* The arguments of create_subprocess_exec: one input and no codec option (the
\* tool transcodes) for a combined stream, two inputs and "-c copy" otherwise.
MuxCommand(o) ==
    IF IsFlv(o.bvid)
    THEN [inputs |-> <<Path(o.fid, o.bvid, "tmp_video")>>, copy |-> FALSE,
          output |-> Path(o.fid, o.bvid, "video")]
    ELSE [inputs |-> <<Path(o.fid, o.bvid, "tmp_video"), Path(o.fid, o.bvid, "tmp_audio")>>,
          copy |-> TRUE, output |-> Path(o.fid, o.bvid, "video")]

\* create_subprocess_exec(ffmpeg ...), communicate(), unlink of the temp inputs,
\* fav_item.downloaded = True.
Mux(i) ==
    /\ pc = "gather"
    /\ i \in DOMAIN tasks
    /\ tasks[i].pc = "mux"
    /\ LET o == tasks[i].obj
           tv == Path(o.fid, o.bvid, "tmp_video")
           ta == Path(o.fid, o.bvid, "tmp_audio")
           vp == Path(o.fid, o.bvid, "video")
       IN \E out \in MuxOutcomes :
             /\ out # "zero" => budget.faults > 0
             /\ budget' = [budget EXCEPT !.faults = @ - (IF out = "zero" THEN 0 ELSE 1)]
             /\ files' =
                  LET written == CASE out = "zero" -> WriteFile(files, vp, TRUE)
                                   [] out = "nonzero_part" -> WriteFile(files, vp, FALSE)
                                   [] OTHER -> files
                  IN IF MuxCompletes(out) THEN unlink(unlink(written, tv), ta) ELSE written
             /\ tasks' = [tasks EXCEPT
                  ![i].pc = IF MuxCompletes(out) THEN "save" ELSE AfterVideoFailure,
                  ![i].muxes = @ + 1,
                  ![i].muxrc = out,
                  ![i].muxcmd = MuxCommand(o),
                  ![i].obj.downloaded = IF MuxCompletes(out) THEN TRUE ELSE @,
                  ![i].log = @ \cup (IF MuxCompletes(out) THEN {} ELSE {"video_failed"})]
             /\ sem' = IF ~MuxCompletes(out) /\ AfterVideoFailure = "raised"
                       THEN ReleaseSem(sem) ELSE sem
    /\ UNCHANGED taskFrame
    /\ UNCHANGED envVars
    /\ UNCHANGED dbVars

SavedRowStatusOnly(row, obj) == [row EXCEPT !.status = obj.status]

\* What save() leaves of the row: every field of the in-memory object
SavedRow(row, obj) == obj

\* await fav_item.save(): the row is rewritten from the in-memory object; an
\* exception of the driver leaves the coroutine.  Either way the wrapper's
\* async with releases the semaphore.
Save(i) ==
    /\ pc = "gather"
    /\ i \in DOMAIN tasks
    /\ tasks[i].pc = "save"
    /\ \E ok \in BOOLEAN :
          /\ ~ok => budget.faults > 0
          /\ budget' = [budget EXCEPT !.faults = @ - (IF ok THEN 0 ELSE 1)]
          /\ items' = IF ok
                      THEN {r \in items : r.id # i}
                              \cup {SavedRow(r, tasks[i].obj) : r \in {x \in items : x.id = i}}
                      ELSE items
          /\ tasks' = [tasks EXCEPT ![i].pc = IF ok THEN "done" ELSE "raised",
                                    ![i].saves = @ + 1]
    /\ sem' = ReleaseSem(sem)
    /\ UNCHANGED <<files, nextId, titleUpdated, uppers, favlists>>
    /\ UNCHANGED taskFrame
    /\ UNCHANGED envVars

(***************************************************************************)
(* A process just started, the modules imported: entry() is about to run   *)
(* the daemon loop (p = "start") or a refresh command (p = "cmd") over the  *)
(* rows and files earlier processes left.                                  *)
(***************************************************************************)
Started(p, rows, fs) ==
    /\ today = 0
    /\ clock = 0
    /\ anchor = 0
    /\ pc = p
    /\ todo = <<>>
    /\ cur = 0
    /\ page = 0
    /\ resp = NoResp
    /\ items = rows
    /\ nextId = Cardinality(rows) + 1
    /\ files = fs
    /\ tasks = <<>>
    /\ sem = Concurrency
    /\ cyc = NoCycle
    /\ prevFailed = FALSE
    /\ requested = <<>>
    /\ titleUpdated = FALSE
    /\ exitWhy = "none"
    /\ info = [f \in Fids |-> "n1"]
    /\ uppers = [mid \in {r.upper_id : r \in rows} |-> [name |-> "u1", thumb |-> "a1"]]
    /\ favlists = [f \in {r.fid : r \in rows} |-> "n1"]

\* The daemon on a fresh install
Fresh == Started("start", {}, {})

\* The program has ended (entry() returned or raised, cleanup ran) and the operator
\* starts it again, as the daemon or with a maintenance command: the modules are
\* imported anew, the database and the files are as they were left.
Restart(p) ==
    /\ pc = "exit"
    /\ budget.runs > 0
    /\ budget' = [budget EXCEPT !.runs = @ - 1]
    /\ pc' = p
    /\ anchor' = today
    /\ todo' = <<>>
    /\ cur' = 0
    /\ page' = 0
    /\ resp' = NoResp
    /\ tasks' = <<>>
    /\ sem' = Concurrency
    /\ cyc' = NoCycle
    /\ prevFailed' = FALSE
    /\ requested' = <<>>
    /\ exitWhy' = "none"
    /\ UNCHANGED files
    /\ UNCHANGED envVars
    /\ UNCHANGED dbVars

\* Between two runs the operator deletes the final media file of a row by hand
\* (the case recheck is meant to be called after).
ManualDelete(r) ==
    /\ pc = "exit"
    /\ r \in items
    /\ aexists(files, Path(r.fid, r.bvid, "video"))
    /\ files' = unlink(files, Path(r.fid, r.bvid, "video"))
    /\ UNCHANGED <<budget, tasks, sem>>
    /\ UNCHANGED mainVars
    /\ UNCHANGED envVars
    /\ UNCHANGED dbVars

Item ==
    \E i \in DOMAIN tasks :
        \/ Acquire(i)
        \/ SideSteps(i)
        \/ VideoStep(i)
        \/ Fetch(i)
        \/ Mux(i)
        \/ Save(i)

Synchronize ==
    \/ ProcessStart
    \/ ForNext
    \/ Sleep
    \/ FetchFirst
    \/ HandlePage
    \/ FetchNext
    \/ Select
    \/ GatherDone

(***************************************************************************)
(* Spec: the daemon within one calendar day, against lists that start      *)
(* empty and that the user fills and edits while the daemon runs.          *)
(***************************************************************************)
Init ==
    /\ Fresh
    /\ remote = [f \in Fids |-> <<>>]
    /\ budget = [favs |-> MaxFavs, renames |-> MaxRenames, faults |-> MaxFaults, days |-> 0,
                 runs |-> 0]

Next ==
    \/ \E f \in Fids, b \in Bvids : Favorite(f, b)
    \/ \E f \in Fids, i \in 1..MaxBvid : Rename(f, i)
    \/ Synchronize
    \/ Item

Spec == Init /\ [][Next]_vars

(***************************************************************************)
(* SpecCred: the daemon across calendar days, against one list of two      *)
(* entries.                                                                *)
(***************************************************************************)
InitCred ==
    /\ Fresh
    /\ remote = [f \in Fids |-> IF f = 1 THEN Listing({1, 2}, 0) ELSE <<>>]
    /\ budget = [favs |-> 0, renames |-> 0, faults |-> MaxFaults, days |-> MaxDay,
                 runs |-> 0]

NextCred ==
    \/ DayPasses
    \/ CheckRefresh
    \/ Refresh
    \/ Synchronize
    \/ Item

SpecCred == InitCred /\ [][NextCred]_vars

(***************************************************************************)
(* SpecOrch: lists of OrchEntries videos, more than the semaphore admits at *)
(* once; the process is the daemon on a fresh install, or a refresh        *)
(* command over what earlier synchronizations left.                        *)
(***************************************************************************)
OrchBvids == (1..(OrchEntries + Cardinality(AudioBvids))) \ AudioBvids

\* What earlier synchronizations of these lists left: a row per entry and list; the
\* first list is downloaded, of the second one only the newest favorite so far.
LeftRows ==
    {[NewItem(Listing(OrchBvids, 0)[k], f, (f - 1) * OrchEntries + k)
         EXCEPT !.downloaded = (f = 1 \/ k = 1), !.tags = "tags"] :
        f \in Fids, k \in 1..OrchEntries}

LeftFiles ==
    {[fid |-> r.fid, bvid |-> r.bvid, kind |-> k, full |-> TRUE] :
        r \in {x \in LeftRows : x.downloaded}, k \in {"video", "poster", "subtitle"}}

InitOrch ==
    /\ \/ Fresh
       \/ Started("cmd", LeftRows, LeftFiles)
    /\ remote = [f \in Fids |-> Listing(OrchBvids, 0)]
    /\ budget = [favs |-> 0, renames |-> 0, faults |-> 0, days |-> 0, runs |-> 0]

NextOrch ==
    \/ \E command \in RefreshCommands, force \in BOOLEAN : RefreshCommand(command, force)
    \/ Synchronize
    \/ Item

SpecOrch == InitOrch /\ [][NextOrch]_vars

(***************************************************************************)
(* SpecOps: the operator runs maintenance commands (recheck, the refresh    *)
(* commands, with or without force) and the daemon, one program run after  *)
(* the other, and deletes media files in between, over a list whose older  *)
(* entry was downloaded by an earlier run and whose newer entry the daemon *)
(* has not seen yet; the user may take an entry out of the list.           *)
(***************************************************************************)
OpsRows ==
    {[NewItem(Listing({1, 2}, 0)[2], 1, 1) EXCEPT !.downloaded = TRUE, !.tags = "tags"]}

OpsFiles ==
    {[fid |-> r.fid, bvid |-> r.bvid, kind |-> k, full |-> TRUE] :
        r \in OpsRows, k \in {"video", "poster", "subtitle"}}

\* The same, when the tag request of the earlier run had failed
OpsRowsUntagged == {[r EXCEPT !.tags = None] : r \in OpsRows}

InitOps ==
    /\ \/ Started("cmd", OpsRows, OpsFiles)
       \/ Started("cmd", OpsRowsUntagged, OpsFiles)
    /\ remote = [f \in Fids |-> IF f = 1 THEN Listing({1, 2}, 0) ELSE <<>>]
    /\ budget = [favs |-> 1, renames |-> 0, faults |-> MaxFaults, days |-> 0,
                 runs |-> MaxRuns]

NextOps ==
    \/ \E command \in RefreshCommands, force \in BOOLEAN : RefreshCommand(command, force)
    \/ Recheck
    \/ \E r \in items : ManualDelete(r)
    \/ \E f \in Fids, i \in 1..MaxBvid : Unfavorite(f, i)
    \/ \E p \in {"start", "cmd"} : Restart(p)
    \/ Synchronize
    \/ Item

SpecOps == InitOps /\ [][NextOps]_vars

(***************************************************************************)
(* SpecPage: the daemon against two lists that hold the same entries,      *)
(* favorited at the same times, while the user favorites entries again.    *)
(***************************************************************************)
InitPage ==
    /\ Fresh
    /\ remote = [f \in Fids |-> Listing({1, 2}, 0)]
    /\ clock = 0
    /\ budget = [favs |-> MaxFavs, renames |-> 0, faults |-> 0, days |-> 0, runs |-> 0]

NextPage ==
    \/ \E f \in Fids, b \in Bvids : Favorite(f, b)
    \/ Synchronize
    \/ Item

SpecPage == InitPage /\ [][NextPage]_vars

(***************************************************************************)
(* SpecFair: the daemon against a list of two pages and an empty list,     *)
(* with the scheduling of the event loop: a coroutine that can run does    *)
(* run, and the sleep between two cycles ends.                             *)
(***************************************************************************)
InitFair ==
    /\ Fresh
    /\ remote = [f \in Fids |-> IF f = 1 THEN Listing({1, 2}, 0) ELSE <<>>]
    /\ budget = [favs |-> 0, renames |-> 0, faults |-> MaxFaults, days |-> 0, runs |-> 0]

NextFair ==
    \/ Synchronize
    \/ Item

SpecFair == InitFair /\ [][NextFair]_vars /\ WF_vars(NextFair)

(***************************************************************************)
(* SpecTitle: the daemon against a list of two entries and a list of one,  *)
(* while the owner renames the lists.                                      *)
(***************************************************************************)
InitTitle ==
    /\ Fresh
    /\ remote = [f \in Fids |-> IF f = 1 THEN Listing({1, 2}, 0) ELSE Listing({1}, 0)]
    /\ budget = [favs |-> 0, renames |-> MaxRenames, faults |-> 0, days |-> 0, runs |-> 0]

NextTitle ==
    \/ \E f \in Fids : RenameList(f)
    \/ Synchronize
    \/ Item

SpecTitle == InitTitle /\ [][NextTitle]_vars

(***************************************************************************)
(* SpecAbort: the daemon on a fresh install against a list of two pages    *)
(* that does not change; a run that a failure ended is started again.      *)
(***************************************************************************)
InitAbort ==
    /\ Fresh
    /\ remote = [f \in Fids |-> IF f = 1 THEN Listing({1, 2}, 0) ELSE <<>>]
    /\ budget = [favs |-> 0, renames |-> 0, faults |-> MaxFaults, days |-> 0,
                 runs |-> MaxRuns]

NextAbort ==
    \/ Restart("start")
    \/ Synchronize
    \/ Item

SpecAbort == InitAbort /\ [][NextAbort]_vars

(***************************************************************************)
(* Properties.                                                             *)
(***************************************************************************)
TempInputs(o) ==
    IF IsFlv(o.bvid) THEN {Path(o.fid, o.bvid, "tmp_video")}
    ELSE {Path(o.fid, o.bvid, "tmp_video"), Path(o.fid, o.bvid, "tmp_audio")}

Settled(t) == t.pc \in {"save", "done", "raised"}

\* C1: at most Concurrency (4) bodies of process_favorite_item are in flight at
\* any time, and the one semaphore accounts for all of them, whichever list the
\* entries belong to.
C1_ConcurrencyCap ==
    /\ Cardinality(InFlight) <= Concurrency
    /\ sem = Concurrency - Cardinality(InFlight)

\* The cap is reached with an entry left waiting in the second list's
\* synchronization, or in a refresh with entries of both lists in flight.
C1_Witness ==
    /\ Cardinality(InFlight) = Concurrency
    /\ \E i \in DOMAIN tasks : tasks[i].pc = "wait"
    /\ \/ cur = 2
       \/ cur = 0 /\ \E i, j \in InFlight : tasks[i].obj.fid # tasks[j].obj.fid

\* C2: gather is left only when every coroutine has finished, by returning to the
\* loop of process() and never by an exception of an entry; an entry that raises
\* changes no other coroutine.
C2_FailureIsolation ==
    /\ [][pc = "gather" /\ pc' # "gather" =>
            /\ \A i \in DOMAIN tasks : Finished(tasks[i])
            /\ pc' = "loop" \/ (cur = 0 /\ pc' = "exit" /\ exitWhy' = "returned")]_vars
    /\ [][\A i \in DOMAIN tasks :
            (i \in DOMAIN tasks' /\ tasks[i].pc # "raised" /\ tasks'[i].pc = "raised")
                => \A j \in DOMAIN tasks \ {i} : j \in DOMAIN tasks' /\ tasks'[j] = tasks[j]]_vars
    /\ [](exitWhy # "item")

C2_Witness ==
    /\ pc = "gather"
    /\ \A i \in DOMAIN tasks : Finished(tasks[i])
    /\ \E i, j \in DOMAIN tasks : tasks[i].pc = "raised" /\ tasks[j].pc = "done"

\* Some entry of the page equals a persisted entry of list f on remote id and
\* favorited time.
KnownPoint(f, medias) ==
    \E k \in DOMAIN medias : \E r \in items :
        r.fid = f /\ r.bvid = medias[k].bvid /\ r.fav_time.epoch = medias[k].fav_time

\* C3: after handling page N the next page is requested iff the remote reported
\* more pages and no entry of page N is at the known point (checked against the
\* rows before the page's upsert); otherwise paging ends.  The pages requested are
\* 1, 2, ... in order.
C3_PagingStops ==
    /\ [][pc = "handle" /\ pc' # "handle" =>
            /\ pc' \in {"fetch", "select"}
            /\ pc' = "fetch" <=> (resp.has_more /\ ~KnownPoint(cur, resp.medias))]_vars
    /\ [][pc = "fetch" /\ pc' # "fetch" => requested' = Append(requested, page + 1)]_vars
    /\ [](requested = [k \in 1..Len(requested) |-> k])

\* Three remote pages, the second one at the known point: pages 1 and 2 only.
C3_Witness ==
    /\ pc = "select"
    /\ requested = <<1, 2>>
    /\ NumPages(cur) = 3
    /\ resp.has_more

\* C4: a ResponseCodeException of the stream resolution maps 62002 to Invisible
\* and -404 to Deleted; any other code leaves the status Normal and is logged; in
\* every case downloaded stays false, in memory and in the saved row.
C4_StatusMapping ==
    \A i \in DOMAIN tasks :
        LET t == tasks[i] IN
        t.code # 0 =>
            /\ t.code = CodeInvisible => t.obj.status = INVISIBLE
            /\ t.code = CodeDeleted => t.obj.status = DELETED
            /\ t.code \notin {CodeInvisible, CodeDeleted} =>
                  t.obj.status = NORMAL /\ "video_failed" \in t.log
            /\ t.obj.downloaded = FALSE
            /\ t.pc = "done" =>
                  \E r \in items : r.id = i /\ r.status = t.obj.status /\ ~r.downloaded

C4_Witness ==
    \E i, j \in DOMAIN tasks :
        /\ tasks[i].code = CodeDeleted /\ tasks[i].pc = "done"
        /\ \E r \in items : r.id = i /\ r.status = DELETED /\ ~r.downloaded

\* C5 (as claimed): when the mux tool exits non-zero the temp inputs stay on disk,
\* the video sub-step has failed (logged) and downloaded stays false.
C5_MuxFailureIsFailure ==
    \A i \in DOMAIN tasks :
        LET t == tasks[i] IN
        (t.muxrc \in {"nonzero", "nonzero_part"} /\ t.pc = "save") =>
            /\ \A p \in TempInputs(t.obj) : aexists(files, p)
            /\ "video_failed" \in t.log
            /\ ~t.obj.downloaded

\* C6 (as claimed): a call on an entry whose final file exists makes no network
\* request at all and no mux run, and marks the entry downloaded.
C6_NoNetworkAtAll ==
    \A i \in DOMAIN tasks :
        LET t == tasks[i] IN
        (t.hadFile /\ Settled(t)) => t.net = 0 /\ t.muxes = 0 /\ t.obj.downloaded

\* C6 (amended): a call on an entry whose final file exists resolves no stream,
\* fetches no media stream and runs no mux tool, and marks the entry downloaded
\* (the tags, poster and subtitle requests are still made when those are missing).
C6_NoVideoWork ==
    \A i \in DOMAIN tasks :
        LET t == tasks[i] IN
        t.hadFile =>
            /\ t.resolves = 0 /\ t.fetches = 0 /\ t.muxes = 0
            /\ Settled(t) => t.obj.downloaded
            /\ t.pc = "done" => \E r \in items : r.id = i /\ r.downloaded

C6_Witness ==
    \E i \in DOMAIN tasks :
        tasks[i].hadFile /\ tasks[i].pc = "done" /\ tasks[i].net > 0

\* C7: the coroutines handed to gather are exactly the rows of the list that are
\* video, Normal and not downloaded; so no stream is resolved, fetched or muxed
\* for an entry persisted as downloaded, Invisible or Deleted.
C7_Selection ==
    /\ [][pc = "select" /\ pc' # "select" =>
            DOMAIN tasks' = {r.id : r \in {x \in items : /\ x.fid = cur
                                                         /\ x.type = VIDEO
                                                         /\ x.status = NORMAL
                                                         /\ ~x.downloaded}}]_vars
    /\ [](\A i \in DOMAIN tasks :
            LET t == tasks[i] IN
            (t.resolves + t.fetches + t.muxes > 0) =>
                /\ t.obj.fid = cur /\ t.obj.type = VIDEO
                /\ t.pre.status = NORMAL /\ ~t.pre.downloaded)

C7_Witness ==
    /\ pc = "gather"
    /\ \E r \in items : r.fid = cur /\ r.status = INVISIBLE /\ r.id \notin DOMAIN tasks
    /\ \E i \in DOMAIN tasks : tasks[i].resolves > 0

\* C8: no two rows share (bvid, favorite list); upserting a page leaves every row
\* its id and key, and a listed entry that had a row keeps that one row, which
\* takes the remote title.
C8_UpsertUnique ==
    /\ [](\A r1, r2 \in items : (r1.bvid = r2.bvid /\ r1.fid = r2.fid) => r1 = r2)
    /\ [][\A r \in items : \E r2 \in items' :
            r2.id = r.id /\ r2.bvid = r.bvid /\ r2.fid = r.fid]_vars
    /\ [][pc = "handle" /\ pc' # "handle" =>
            \A k \in DOMAIN resp.medias :
                LET m == resp.medias[k]
                    old == {r \in items : r.bvid = m.bvid /\ r.fid = cur}
                    new == {r \in items' : r.bvid = m.bvid /\ r.fid = cur}
                IN /\ Cardinality(new) = 1
                   /\ \A r \in new : r.name = m.title
                   /\ old # {} => {r.id : r \in new} = {r.id : r \in old}]_vars

C8_Witness ==
    /\ titleUpdated
    /\ \E r \in items : r.name = "t2" /\ Cardinality({x \in items : x.bvid = r.bvid}) = 2

\* C9: process() queries the credential iff today is after the anchor, and then
\* sets the anchor to today; a cycle whose refresh failed synchronizes no list.
C9_CredentialGate ==
    /\ [][pc = "start" /\ pc' # "start" =>
            IF today > anchor
            THEN pc' = "check" /\ anchor' = today
            ELSE pc' = "loop" /\ anchor' = anchor]_vars
    /\ [][cyc'.checked /\ ~cyc.checked => pc = "check"]_vars
    /\ [](cyc.failed => cyc.synced = {} /\ pc \in {"sleep", "start"})

C9_Witness ==
    /\ cyc.failed
    /\ pc = "sleep"
    /\ anchor = today

\* C10 (as claimed): the cycle after one whose refresh failed attempts the refresh
\* before it synchronizes a list.
C10_RetryNextCycle ==
    (prevFailed /\ cyc.synced # {}) => cyc.tried

\* C11 (as claimed): a failure while one list is synchronized stays inside that
\* list: the process is never ended by a failed listing request, so the remaining
\* lists and the later cycles still run.
C11_ListingFailureContained ==
    ~(pc = "exit" /\ exitWhy = "listing")

\* C14 (as claimed): an entry whose tag sub-step failed (its tags are still unset
\* in the saved row) is handed to the Item Processor again by the next
\* synchronization of its list, so that the sub-step is attempted again.
C14_SideStepRetried ==
    \A r \in items :
        (pc = "gather" /\ cur = r.fid /\ r.type = VIDEO /\ r.status = NORMAL
            /\ r.downloaded /\ r.tags = None)
            => r.id \in DOMAIN tasks

\* C16: in a call on a video entry every enabled sub-step is entered whatever the
\* earlier ones did (the tags and the enabled side steps before the video one, the
\* video one before the save); save() is called once, after all of them; and only
\* the save can make the call raise.
C16_SubStepsIndependent ==
    \A i \in DOMAIN tasks :
        LET t == tasks[i] IN
        t.obj.type = VIDEO =>
            /\ t.pc \in {"video", "fetch", "mux", "save", "done", "raised"} =>
                  ({"tags"} \cup (t.steps \ {"video"})) \subseteq t.ran
            /\ t.pc \in {"save", "done", "raised"} => ({"tags"} \cup t.steps) \subseteq t.ran
            /\ t.saves = (IF t.pc \in {"done", "raised"} THEN 1 ELSE 0)

C16_Witness ==
    \E i \in DOMAIN tasks :
        /\ tasks[i].pc = "done"
        /\ {"tags_failed", "upper_failed", "nfo_failed"} \subseteq tasks[i].log
        /\ tasks[i].muxrc = "zero"
        /\ \E r \in items : r.id = i /\ r.downloaded /\ r.tags = None

\* C17: the mux tool is started at most once per call and only when every temp
\* input has been fetched in full: one fetch and one input without stream copy
\* for a combined stream, two fetches and two inputs with stream copy otherwise;
\* once the tool has returned the temp inputs are gone.
C17_MuxShapes ==
    \A i \in DOMAIN tasks :
        LET t == tasks[i]
            o == t.obj
            flv == o.bvid \in FlvBvids
            tv == Path(o.fid, o.bvid, "tmp_video")
            ta == Path(o.fid, o.bvid, "tmp_audio")
            inputs == IF flv THEN <<tv>> ELSE <<tv, ta>>
        IN /\ t.muxes <= 1
           /\ t.fetches \in {0, Len(inputs)}
           /\ t.pc = "mux" =>
                 /\ t.fetches = Len(inputs)
                 /\ \A k \in DOMAIN inputs : \E x \in AtPath(files, inputs[k]) : x.full
           /\ t.muxes = 1 =>
                 /\ t.fetches = Len(inputs)
                 /\ t.muxcmd.inputs = inputs
                 /\ t.muxcmd.copy = ~flv
                 /\ t.muxcmd.output = Path(o.fid, o.bvid, "video")
           /\ t.muxrc \in {"zero", "nonzero", "nonzero_part"} =>
                 ~aexists(files, tv) /\ ~aexists(files, ta)

\* Both shapes in one gather
C17_Witness ==
    \E i, j \in DOMAIN tasks :
        /\ tasks[i].obj.bvid \in FlvBvids /\ tasks[i].muxrc = "zero" /\ tasks[i].pc = "done"
        /\ tasks[j].obj.bvid \notin FlvBvids /\ tasks[j].muxrc = "zero" /\ tasks[j].pc = "done"

\* C12: no step of the program (the upsert of a synchronization, the save of the
\* Item Processor, recheck, a refresh command) takes a persisted entry from
\* Invisible or Deleted back to Normal.
C12_TerminalStatusKept ==
    [][\A r \in items : r.status # NORMAL =>
          \A r2 \in items' : r2.id = r.id => r2.status # NORMAL]_vars

\* A row a refresh marked Deleted has since been listed and upserted again.
C12_Witness ==
    /\ pc = "select"
    /\ \E r \in items :
          /\ r.status = DELETED /\ r.fid = cur
          /\ \E k \in DOMAIN resp.medias : resp.medias[k].bvid = r.bvid

\* The video sub-step of the call succeeded: the file was there, or the fetch and
\* the mux completed.
VideoSucceeded(t) == "video_exists" \in t.log \/ t.muxrc = "zero"

C20_OnlyAfterFetch ==
    [][\A r \in items : \A r2 \in items' :
          (r2.id = r.id /\ (r2.status # r.status \/ r2.downloaded # r.downloaded)) =>
              /\ r.id \in DOMAIN tasks
              /\ tasks[r.id].pc = "save"
              /\ tasks[r.id].resolves > 0]_vars

\* C20 (amended): the status changes only in the save of a call whose stream
\* resolution returned a mapped code; downloaded becomes true only in the save of
\* a call that found the final file or whose mux tool returned, and becomes false
\* only in recheck, for a Normal entry whose file is missing; the upsert changes
\* neither.
C20_WhoChanges ==
    [][\A r \in items : \A r2 \in items' : r2.id = r.id =>
          LET saving == r.id \in DOMAIN tasks /\ tasks[r.id].pc = "save" /\ pc = "gather"
          IN /\ r2.status # r.status =>
                   /\ saving
                   /\ tasks[r.id].code \in {CodeInvisible, CodeDeleted}
                   /\ r2.status = (IF tasks[r.id].code = CodeInvisible THEN INVISIBLE ELSE DELETED)
             /\ (~r.downloaded /\ r2.downloaded) =>
                   /\ saving
                   /\ \/ "video_exists" \in tasks[r.id].log
                      \/ tasks[r.id].muxrc \in {"zero", "nonzero", "nonzero_part"}
             /\ (r.downloaded /\ ~r2.downloaded) =>
                   /\ pc = "cmd" /\ pc' = "exit"
                   /\ r.status = NORMAL
                   /\ AtPath(files, Path(r.fid, r.bvid, "video")) = {}]_vars

\* recheck has reset an entry whose file a forced refresh removed and failed to
\* fetch again.
C20_Witness ==
    /\ pc = "exit"
    /\ exitWhy = "returned"
    /\ \E r \in items : r.id \in {x.id : x \in OpsRows} /\ ~r.downloaded /\ r.status = NORMAL

\* The entry waits for its video: a Normal video row that is not downloaded.
Stalled(r) == r.type = VIDEO /\ r.status = NORMAL /\ ~r.downloaded

C18_KnownPointIsPair ==
    [][(pc = "handle" /\ pc' # "handle" /\ resp.has_more) =>
          LET same(k) == {r \in items : /\ r.bvid = resp.medias[k].bvid
                                         /\ r.fav_time.epoch = resp.medias[k].fav_time
                                         /\ r.fid = cur}
          IN IF \E k \in DOMAIN resp.medias : same(k) # {}
             THEN pc' = "select"
             ELSE pc' = "fetch"]_vars

\* Paging went on past a page whose entry had been downloaded before: its row had
\* another favorited time, the user having favorited the entry again.
C18_Witness ==
    /\ pc = "fetch"
    /\ \E k \in DOMAIN resp.medias : \E r \in items :
          r.fid = cur /\ r.bvid = resp.medias[k].bvid /\ r.downloaded

\* C19: the paging of a list ends (in the selection, or with a failed request);
\* an empty list ends after page 1; paging never goes past the last remote page,
\* and after a page of new entries only it ends only if the remote reported no
\* more pages.
C19_PagingTerminates ==
    /\ (pc = "first") ~> (pc \in {"select", "exit"})
    /\ [](pc = "select" /\ remote[cur] = <<>> => requested = <<1>>)
    /\ [](pc \in {"handle", "fetch", "select"} =>
            Len(requested) <= (IF NumPages(cur) = 0 THEN 1 ELSE NumPages(cur)))
    /\ [][(pc = "handle" /\ pc' = "select"
             /\ \A k \in DOMAIN resp.medias :
                   \A r \in items : ~(r.fid = cur /\ r.bvid = resp.medias[k].bvid))
            => ~resp.has_more]_vars

\* The first list, all new in the first cycle, has a row for every entry of its
\* two pages; the second list is empty and its paging ended after page 1.
C19_Witness ==
    /\ pc = "select"
    /\ cur = 2
    /\ remote[2] = <<>>
    /\ requested = <<1>>
    /\ Cardinality({r \in items : r.fid = 1}) = Len(remote[1])
    /\ NumPages(1) > 1

\* C21: once the first listing request of a synchronization has answered, the
\* stored name of the list is the title the platform shows for it.
C21_NameFollowsTitle ==
    (pc \in {"handle", "fetch", "select", "gather"} /\ cur # 0) =>
        (cur \in DOMAIN favlists /\ favlists[cur] = info[cur])

\* C22: when a gather returns, every coroutine of it that ended on an exception
\* (its save raised) has left a log record of that failure, written by the Item
\* Processor or by the caller of the gather.
C22_EscapedFailureLogged ==
    [][(pc = "gather" /\ pc' # "gather") =>
          \A i \in DOMAIN tasks :
              tasks[i].pc = "raised" => "save_failed" \in tasks[i].log \cup GatherLog(tasks)]_vars

KindsOf(steps) == steps \cup (IF "video" \in steps THEN {"tmp_video", "tmp_audio"} ELSE {})

\* C24 as stated: a call made by a refresh command runs nothing but the sub-step
\* of the command: it fetches no tags.
C24_OnlyThatSubStep ==
    \A i \in DOMAIN tasks :
        (cur = 0 /\ tasks[i].pc \in {"video", "fetch", "mux", "save"}) =>
            \A r \in items : r.id = i => tasks[i].obj.tags = r.tags

\* C24, amended: a refresh command hands every row persisted as downloaded to the
\* Item Processor with one asset sub-step on; with force the targets of that kind
\* of all these rows are gone before any call starts, without force no file is;
\* a call enters no other asset sub-step, fetches tags only for a row that has
\* none, touches only files of its kind, and makes no request for a poster,
\* a subtitle or a video whose file exists.
C24_ForceRefresh ==
    /\ [][(pc = "cmd" /\ pc' = "gather") =>
            LET sel == {r \in items : r.downloaded}
                force == \E i \in DOMAIN tasks' : tasks'[i].forced
            IN /\ DOMAIN tasks' = {r.id : r \in sel}
               /\ sem' = Concurrency
               /\ \E k \in AllSteps :
                     /\ \A i \in DOMAIN tasks' :
                           tasks'[i].pc = "wait" /\ tasks'[i].steps = {k}
                     /\ files' = IF force
                                 THEN {x \in files : ~(x.kind = k /\ \E r \in sel :
                                                          r.fid = x.fid /\ r.bvid = x.bvid)}
                                 ELSE files]_vars
    /\ [](cur = 0 =>
            \A i \in DOMAIN tasks :
                /\ tasks[i].ran \subseteq {"tags"} \cup tasks[i].steps
                /\ \A r \in items :
                      (r.id = i /\ tasks[i].pc # "done" /\ tasks[i].obj.tags # r.tags)
                          => r.tags = None)
    /\ [][(pc = "gather" /\ cur = 0 /\ pc' = "gather") =>
            \A x \in (files \ files') \cup (files' \ files) :
                \E i \in DOMAIN tasks : /\ tasks[i].pc # tasks'[i].pc
                                         /\ x.fid = tasks[i].obj.fid
                                         /\ x.bvid = tasks[i].obj.bvid
                                         /\ x.kind \in KindsOf(tasks[i].steps)]_vars
    /\ [][(pc = "gather" /\ cur = 0 /\ pc' = "gather") =>
            \A i \in DOMAIN tasks :
                LET t == tasks[i]
                    had(k) == AtPath(files, Path(t.obj.fid, t.obj.bvid, k)) # {}
                IN ((t.pc = "body" /\ tasks'[i].pc # "body" /\ t.obj.tags # None
                       /\ \E k \in {"poster", "subtitle"} : t.steps = {k} /\ had(k))
                    \/ (t.pc = "video" /\ tasks'[i].pc # "video" /\ had("video")))
                   => (tasks'[i].net = t.net /\ files' = files)]_vars

\* A forced refresh_video: the final file of the downloaded row was there, is gone
\* before the call starts, and the call has fetched and muxed it again.
C24_Witness ==
    /\ cur = 0
    /\ \E i \in DOMAIN tasks :
          /\ tasks[i].forced
          /\ tasks[i].steps = {"video"}
          /\ ~tasks[i].hadFile
          /\ tasks[i].pc = "done"
          /\ tasks[i].muxrc = "zero"
          /\ AtPath(files, Path(tasks[i].obj.fid, tasks[i].obj.bvid, "video")) # {}

\* The persisted keys (remote id, list id)
Keys(rows) == {<<r.bvid, r.fid>> : r \in rows}

\* C25: no step of the system removes a row: the persisted keys only grow, each
\* key keeps its row id, and a key has one row.
C25_EntriesNeverRemoved ==
    /\ [][/\ Keys(items) \subseteq Keys(items')
          /\ \A r \in items : \E q \in items' : q.id = r.id /\ q.bvid = r.bvid /\ q.fid = r.fid]_vars
    /\ [](Cardinality(Keys(items)) = Cardinality(items))

\* The user took the downloaded entry out of the list; the list has been listed to
\* its last page since, and the row is still there.
C25_Witness ==
    /\ pc = "select"
    /\ cur = 1
    /\ ~resp.has_more
    /\ \E r \in items : /\ r.fid = 1
                         /\ r \in OpsRows \cup OpsRowsUntagged
                         /\ \A k \in DOMAIN remote[1] : remote[1][k].bvid # r.bvid

\* Every item of the listing response has its row, with the response's values.
Upserted(f, medias) ==
    \A k \in DOMAIN medias :
        \E r \in items : /\ r.fid = f /\ r.bvid = medias[k].bvid
                         /\ r.name = medias[k].title
                         /\ r.fav_time.epoch = medias[k].fav_time

\* C26: the pages a synchronization has requested are 1, 2, ..., k in this order,
\* each once; a further page is requested only when the page before has been
\* checked and upserted; and the gather of a list starts only when the last page
\* requested has been upserted, with no coroutine of the list started before.
C26_PagesInOrder ==
    /\ [](requested = [k \in 1..Len(requested) |-> k])
    /\ [][requested' # requested =>
            \/ requested' = <<>>
            \/ requested' = <<1>> /\ pc = "first"
            \/ /\ requested' = Append(requested, Len(requested) + 1)
               /\ requested # <<>>
               /\ pc = "fetch"
               /\ Upserted(cur, resp.medias)]_vars
    /\ [](pc \in {"first", "handle", "fetch", "select"} => tasks = <<>>)
    /\ [][(cur # 0 /\ tasks = <<>> /\ tasks' # <<>>) =>
            /\ pc = "select"
            /\ requested' = requested
            /\ Upserted(cur, resp.medias)]_vars

\* A list was read over two pages and its gather runs.
C26_Witness ==
    /\ pc = "gather"
    /\ cur # 0
    /\ requested = <<1, 2>>
    /\ \E i \in DOMAIN tasks : tasks[i].pc # "wait"
    /\ Cardinality({r \in items : r.fid = cur}) >= 2

\* C27: the handling of a fetched page, whether paging goes on after it or not,
\* leaves for every item of the page a row of the list with the item's name,
\* kind, description, cover and three timestamps and an uploader row with the
\* item's uploader name and avatar; it keeps the status, downloaded flag and tags
\* of every row that existed; and with more pages to come it goes on whenever no
\* row matched an item on id and favorited time before the upsert.
C27_PageUpserted ==
    [][(pc = "handle" /\ pc' # "handle") =>
          /\ \A k \in DOMAIN resp.medias :
                LET m == resp.medias[k] IN
                /\ \E q \in items' :
                      /\ q.fid = cur /\ q.bvid = m.bvid
                      /\ q.name = m.title /\ q.type = TypeOf(m.bvid)
                      /\ q.desc = m.intro /\ q.cover = m.cover
                      /\ q.ctime.epoch = m.ctime /\ q.pubtime.epoch = m.pubtime
                      /\ q.fav_time.epoch = m.fav_time
                /\ m.upper.mid \in DOMAIN uppers'
                /\ uppers'[m.upper.mid] = [name |-> m.upper.name, thumb |-> m.upper.face]
          /\ \A r \in items : \E q \in items' :
                /\ q.id = r.id /\ q.bvid = r.bvid /\ q.fid = r.fid
                /\ q.status = r.status /\ q.downloaded = r.downloaded /\ q.tags = r.tags
          /\ (resp.has_more /\ \A k \in DOMAIN resp.medias : \A r \in items :
                  ~(r.fid = cur /\ r.bvid = resp.medias[k].bvid
                      /\ r.fav_time.epoch = resp.medias[k].fav_time))
                => pc' = "fetch"]_vars

\* Paging stopped at the known point with more pages to come, and the page's row,
\* downloaded in an earlier cycle, carries the values the uploader edited since.
C27_Witness ==
    /\ pc = "select"
    /\ resp.has_more
    /\ titleUpdated
    /\ \E k \in DOMAIN resp.medias : \E r \in items :
          /\ r.fid = cur /\ r.bvid = resp.medias[k].bvid
          /\ r.fav_time.epoch = resp.medias[k].fav_time
          /\ r.downloaded /\ r.tags # None
          /\ r.name = "t2" /\ r.desc = "d2" /\ r.cover = "c2"
          /\ uppers[r.upper_id] = [name |-> "u2", thumb |-> "a2"]

\* C28: a row whose status is Invisible or Deleted is not persisted as
\* downloaded.
C28_TerminalNotDownloaded ==
    \A r \in items : r.status \in {INVISIBLE, DELETED} => ~r.downloaded

\* C29: when a call of the Item Processor saves its row as downloaded, the final
\* media file of the row is on disk.
C29_DownloadedHasFile ==
    [][\A i \in DOMAIN tasks :
          (tasks[i].pc = "save" /\ tasks'[i].pc = "done" /\ tasks[i].obj.downloaded)
              => AtPath(files, Path(tasks[i].obj.fid, tasks[i].obj.bvid, "video")) # {}]_vars

\* C30: when the paging of a list has completed, every entry of the remote list
\* (which has not changed since the install) has a row.
C30_CompleteAfterAbort ==
    (pc = "select" /\ cur # 0) =>
        \A k \in DOMAIN remote[cur] :
            \E r \in items : r.fid = cur /\ r.bvid = remote[cur][k].bvid

\* C31: when a call skips the poster or the subtitle sub-step, or marks its entry
\* downloaded without fetching, because the file is there, that file is one a
\* download or a mux run has written completely.
C31_SkipOnlyOnComplete ==
    [][\A i \in DOMAIN tasks :
          LET t == tasks[i]
              at(k) == AtPath(files, Path(t.obj.fid, t.obj.bvid, k))
          IN /\ (t.pc = "body" /\ tasks'[i].pc # "body") =>
                   \A k \in {"poster", "subtitle"} \cap t.steps : \A x \in at(k) : x.full
             /\ (t.pc = "video" /\ tasks'[i].pc = "save" /\ "video" \in t.steps) =>
                   \A x \in at("video") : x.full]_vars

====
